---- MODULE Spec2Model ----
(***************************************************************************)
(* Model of the miniargv matching and dispatch engine (lib/miniargv.c).    *)
(*                                                                         *)
(* A C string is a sequence of one-character strings; the terminating NUL  *)
(* is the position Len(s)+1.  An argument vector is a sequence of such     *)
(* strings indexed as argv[1], argv[2], ... (argv[0], the program name, is *)
(* never read by the engine); the terminating NULL pointer is the position *)
(* Len(argv)+1.  A definition table is a sequence of records, the sentinel *)
(* entry (callbackfn = NULL) being the position Len(argdef)+1.             *)
(***************************************************************************)
EXTENDS Integers, Sequences, FiniteSets

\* ------------------------------------------------------------- bounds
MaxArgs == 2
MaxEnv == 2

\* ------------------------------------------------------------- C values
\* the character 0 that terminates a string (also a shortarg of 0)
NUL == "NUL"
\* a NULL char pointer (longarg, argparam, the value handed to a callback)
NoStr == <<"NULL">>
\* a NULL argv / env array
NoArgv == <<<<"NULL">>>>
NoEnv == <<<<"NULL">>>>

\* s[k] of a C string, k counted from 0; the terminator sits at s[strlen(s)]
At(s, k) == IF k < Len(s) THEN s[k + 1] ELSE NUL

\* s + k: the string that starts k characters into s
StrFrom(s, k) == SubSeq(s, k + 1, Len(s))

Min(a, b) == IF a < b THEN a ELSE b

\* strncmp(a, b, n) == 0: the first n characters agree, the comparison
\* stopping after the first terminator
StrNCmpEq(a, b, n) ==
  \A k \in 0..(Min(n, Min(Len(a), Len(b)) + 1) - 1) : At(a, k) = At(b, k)

\* strchr(s, c) as the offset of the first c in s, -1 when there is none
StrChr(s, c) ==
  IF \E k \in 0..(Len(s) - 1) : At(s, k) = c
    THEN CHOOSE k \in 0..(Len(s) - 1) :
           At(s, k) = c /\ \A j \in 0..(k - 1) : At(s, j) # c
    ELSE -1

\* ------------------------------------------------------------- flags
MINIARG_PROCESS_FLAG_FLAGS == {"FLAGS"}
MINIARG_PROCESS_FLAG_VALUES == {"VALUES"}
MINIARG_PROCESS_FLAG_BOTH ==
  MINIARG_PROCESS_FLAG_FLAGS \cup MINIARG_PROCESS_FLAG_VALUES
MINIARG_PROCESS_FLAG_FIND_ONLY == {"FIND_ONLY"}
MINIARG_PROCESS_FLAG_FIND_VALUE ==
  MINIARG_PROCESS_FLAG_FIND_ONLY \cup MINIARG_PROCESS_FLAG_VALUES

\* (flags & mask) != 0
HasFlag(flags, mask) == flags \cap mask # {}

\* ------------------------------------------------------------- definitions
\* struct miniargv_definition_struct: shortarg (NUL when 0), longarg (NoStr
\* when NULL), argparam (TRUE when not NULL); the callback function of an
\* entry is identified by the entry's index in its table
Def(s, l, p) == [shortarg |-> s, longarg |-> l, argparam |-> p]

\* ------------------------------------------------------------- classification
\* argv[i][0] == '-' && argv[i][1]
IsOption(tok) == At(tok, 0) = "-" /\ At(tok, 1) # NUL

\* variant: "--" without a name is not taken as an option
ClassifyNamedLong(tok) ==
  IF IsOption(tok) /\ tok # <<"-", "-">>
    THEN IF At(tok, 1) # "-" THEN "short" ELSE "long"
    ELSE "standalone"

\* the branch of the loop body a token takes
Classify(tok) ==
  IF IsOption(tok)
    THEN IF At(tok, 1) # "-" THEN "short" ELSE "long"
    ELSE "standalone"

\* ------------------------------------------------------------- table scans
\* the smallest member of a non-empty set of indices, 0 for the empty set
First(S) == IF S = {} THEN 0 ELSE CHOOSE d \in S : \A e \in S : d <= e

\* variant: the scan goes on after a hit, the last entry wins
FindShortDefLast(argdef, c) ==
  LET S == {d \in 1..Len(argdef) :
              argdef[d].shortarg # NUL /\ argdef[d].shortarg = c}
  IN  IF S = {} THEN 0 ELSE CHOOSE d \in S : \A e \in S : e <= d

\* the entry at which the short-argument scan stops (break), 0 when the
\* scan reaches the sentinel
FindShortDef(argdef, c) ==
  First({d \in 1..Len(argdef) :
           argdef[d].shortarg # NUL /\ argdef[d].shortarg = c})

\* variant: prefix comparison only, the character after the name unchecked
LongFitsPrefix(tok, longarg) ==
  StrNCmpEq(StrFrom(tok, 2), longarg, Len(longarg))

\* strncmp(argv[i] + 2, longarg, l) == 0 &&
\* (argv[i][2 + l] == 0 || argv[i][2 + l] == '=')
LongFits(tok, longarg) ==
  LET l == Len(longarg)
  IN  /\ StrNCmpEq(StrFrom(tok, 2), longarg, l)
      /\ At(tok, 2 + l) \in {NUL, "="}

\* the entry at which the long-argument scan stops (break), 0 when the
\* scan reaches the sentinel
FindLongDef(argdef, tok) ==
  First({d \in 1..Len(argdef) :
           argdef[d].longarg # NoStr /\ LongFits(tok, argdef[d].longarg)})

\* the entry the standalone-value scan caches, 0 when there is none
FindStandaloneDef(argdef) ==
  First({d \in 1..Len(argdef) :
           argdef[d].shortarg = NUL /\ argdef[d].longarg = NoStr})

\* ------------------------------------------------------------- resolution
\* What one loop iteration resolves argv[i] to, before any callback runs:
\* kind "flag" or "value" with the entry, the value for the callback and the
\* cursor i as the branch leaves it (i + 1 after the i++ of the
\* space-separated form), or kind "none".
NoMatch(i) == [kind |-> "none", def |-> 0, val |-> NoStr, i |-> i]
Hit(kind, d, val, i) == [kind |-> kind, def |-> d, val |-> val, i |-> i]

\* variant: a value-taking flag without any value is called with no value
ShortMatchAbsentValue(argv, i, argdef) ==
  LET tok == argv[i]
      d == FindShortDef(argdef, At(tok, 1))
  IN  IF d = 0 THEN NoMatch(i)
      ELSE IF ~argdef[d].argparam
        THEN IF At(tok, 2) = NUL THEN Hit("flag", d, NoStr, i) ELSE NoMatch(i)
      ELSE IF At(tok, 2) # NUL THEN Hit("flag", d, StrFrom(tok, 2), i)
      ELSE IF i + 1 <= Len(argv) THEN Hit("flag", d, argv[i + 1], i + 1)
      ELSE Hit("flag", d, NoStr, i)

\* variant: the space-separated value is read without moving the cursor
ShortMatchCursorStays(argv, i, argdef) ==
  LET tok == argv[i]
      d == FindShortDef(argdef, At(tok, 1))
  IN  IF d = 0 THEN NoMatch(i)
      ELSE IF ~argdef[d].argparam
        THEN IF At(tok, 2) = NUL THEN Hit("flag", d, NoStr, i) ELSE NoMatch(i)
      ELSE IF At(tok, 2) # NUL THEN Hit("flag", d, StrFrom(tok, 2), i)
      ELSE IF i + 1 <= Len(argv) THEN Hit("flag", d, argv[i + 1], i)
      ELSE NoMatch(i)

ShortMatch(argv, i, argdef) ==
  LET tok == argv[i]
      d == FindShortDef(argdef, At(tok, 1))
  IN  IF d = 0 THEN NoMatch(i)
      ELSE IF ~argdef[d].argparam
        THEN IF At(tok, 2) = NUL THEN Hit("flag", d, NoStr, i) ELSE NoMatch(i)
      ELSE IF At(tok, 2) # NUL THEN Hit("flag", d, StrFrom(tok, 2), i)
      ELSE IF i + 1 <= Len(argv) THEN Hit("flag", d, argv[i + 1], i + 1)
      ELSE NoMatch(i)

\* variant: a value-taking long flag without '=' takes the next token
LongMatchSpaced(argv, i, argdef) ==
  LET tok == argv[i]
      d == FindLongDef(argdef, tok)
      l == IF d = 0 THEN 0 ELSE Len(argdef[d].longarg)
  IN  IF d = 0 THEN NoMatch(i)
      ELSE IF ~argdef[d].argparam
        THEN IF At(tok, 2 + l) = NUL THEN Hit("flag", d, NoStr, i) ELSE NoMatch(i)
      ELSE IF At(tok, 2 + l) = "=" THEN Hit("flag", d, StrFrom(tok, 3 + l), i)
      ELSE IF i + 1 <= Len(argv) THEN Hit("flag", d, argv[i + 1], i + 1)
      ELSE NoMatch(i)

LongMatch(argv, i, argdef) ==
  LET tok == argv[i]
      d == FindLongDef(argdef, tok)
      l == IF d = 0 THEN 0 ELSE Len(argdef[d].longarg)
  IN  IF d = 0 THEN NoMatch(i)
      ELSE IF ~argdef[d].argparam
        THEN IF At(tok, 2 + l) = NUL THEN Hit("flag", d, NoStr, i) ELSE NoMatch(i)
      ELSE IF At(tok, 2 + l) = "=" THEN Hit("flag", d, StrFrom(tok, 3 + l), i)
      ELSE NoMatch(i)

StandaloneMatch(argv, i, sdef) ==
  IF sdef # 0 THEN Hit("value", sdef, argv[i], i) ELSE NoMatch(i)

\* the standalone-value definition in force during an iteration: looked up
\* on the first standalone token, reused afterwards
CachedStandalone(argdef, isset, cached) ==
  IF isset THEN cached ELSE FindStandaloneDef(argdef)

Match(argv, i, argdef, sdef) ==
  LET c == Classify(argv[i])
  IN  IF c = "short" THEN ShortMatch(argv, i, argdef)
      ELSE IF c = "long" THEN LongMatch(argv, i, argdef)
      ELSE StandaloneMatch(argv, i, sdef)

\* variant: a flag's callback is called in every pass that dispatches
FlagsInEveryPass(flags, kind) ==
  /\ HasFlag(flags, MINIARG_PROCESS_FLAG_BOTH)
  /\ ~HasFlag(flags, MINIARG_PROCESS_FLAG_FIND_ONLY)
  /\ kind = "value" => HasFlag(flags, MINIARG_PROCESS_FLAG_VALUES)

\* whether the iteration calls the resolved entry's callback
Dispatches(flags, kind) ==
  \/ kind = "flag" /\ HasFlag(flags, MINIARG_PROCESS_FLAG_FLAGS)
  \/ /\ kind = "value"
     /\ HasFlag(flags, MINIARG_PROCESS_FLAG_VALUES)
     /\ ~HasFlag(flags, MINIARG_PROCESS_FLAG_FIND_ONLY)

\* variant: the find-only query returns the index of any resolved argument
FindsAnyArgument(flags, kind) ==
  /\ kind \in {"value", "flag"}
  /\ HasFlag(flags, MINIARG_PROCESS_FLAG_FIND_ONLY)

\* whether the iteration returns the index of a standalone value (return i)
Finds(flags, kind) ==
  /\ kind = "value"
  /\ HasFlag(flags, MINIARG_PROCESS_FLAG_VALUES)
  /\ HasFlag(flags, MINIARG_PROCESS_FLAG_FIND_ONLY)

\* variant: the index counted without the program name
AbortCodeZeroBased(flags, i) ==
  IF HasFlag(flags, MINIARG_PROCESS_FLAG_FIND_ONLY) THEN -1 ELSE i - 1

\* the value returned when an iteration ends without success
AbortCode(flags, i) ==
  IF HasFlag(flags, MINIARG_PROCESS_FLAG_FIND_ONLY) THEN -1 ELSE i

\* ------------------------------------------------------------- inputs
\* return codes an argument callback or the bad-argument handler may give
CbCodes == {0, 7}
\* return codes an environment callback may give
EnvCbCodes == {0, 7, -1}

\* -v/--vb without value, -o/--ou with value, one standalone-value entry
TableBasic ==
  << Def("v", <<"v", "b">>, FALSE),
     Def("o", <<"o", "u">>, TRUE),
     Def(NUL, NoStr, TRUE) >>

\* repeated identifiers: two entries for -v, two for --vb (after an entry
\* whose long name is a prefix of it), two standalone-value entries
TableTies ==
  << Def("v", <<"v">>, TRUE),
     Def("v", <<"v", "b">>, FALSE),
     Def("o", <<"v", "b">>, TRUE),
     Def(NUL, NoStr, TRUE),
     Def(NUL, NoStr, FALSE) >>

\* a short-only and a long-only entry, no standalone-value entry
TableNoValue ==
  << Def("o", NoStr, TRUE),
     Def(NUL, <<"o", "u">>, TRUE),
     Def(NUL, <<"v", "b">>, FALSE) >>

ArgTables == {TableBasic, TableTies, TableNoValue}

\* environment definitions: a name, an entry without a name, a second name
\* that is a prefix of the first
EnvTable ==
  << Def(NUL, <<"K", "L">>, TRUE),
     Def("x", NoStr, FALSE),
     Def(NUL, <<"K">>, TRUE) >>

TokShort == { <<"-", "v">>, <<"-", "o">>, <<"-", "o", "r">>, <<"-", "x">>, <<"r">> }
TokLongPlain ==
  { <<"-", "-", "v", "b">>, <<"-", "-", "v", "b", "x">>,
    <<"-", "-", "v", "b", "=", "r">>, <<"-", "v", "r">>, <<"r">> }
TokLongValue ==
  { <<"-", "-", "o", "u", "=", "r">>, <<"-", "-", "o", "u", "=">>,
    <<"-", "-", "o", "u">>, <<"-", "-">>, <<"-">> }
EnvEntries ==
  { <<"K", "=", "r">>, <<"K", "L", "=">>, <<"=", "r">>, <<"K">> }

\* all sequences over S of length at most n
SeqsUpTo(S, n) == UNION {[1..k -> S] : k \in 0..n}

\* longer command lines: the documented example and interleavings of flags
\* and standalone values
ArgvExamples ==
  { << <<"-", "v">>, <<"-", "o", "r">>, <<"i">> >>,
    << <<"r">>, <<"-", "v">>, <<"r">> >>,
    << <<"r">>, <<"-", "o">>, <<"r">>, <<"-", "v">> >>,
    << <<"-", "o">>, <<"-", "v">>, <<"-", "x">> >>,
    << <<"-", "v">>, <<"-", "x">>, <<"-", "v">> >> }

Argvs ==
  SeqsUpTo(TokShort, MaxArgs) \cup SeqsUpTo(TokLongPlain, MaxArgs)
    \cup SeqsUpTo(TokLongValue, MaxArgs) \cup ArgvExamples

\* command lines processed together with an environment array
ArgvsWithEnv ==
  { NoArgv, <<>>, << <<"-", "x">> >>, << <<"r">> >>, << <<"-", "v">>, <<"r">> >> }

\* the public entry points
ArgApis ==
  {"miniargv_process", "miniargv_process_ltr", "miniargv_process_arg",
   "miniargv_process_arg_flags", "miniargv_process_arg_params",
   "miniargv_get_next_arg_param"}
EnvApis == {"miniargv_process", "miniargv_process_ltr", "miniargv_process_env"}

\* ------------------------------------------------------------- state
VARIABLES
  api,        \* the entry point called
  argv,       \* argument array (NoArgv for NULL)
  env,        \* environment array (NoEnv for NULL)
  argdef,     \* argument definitions
  envdef,     \* environment definitions
  badfn,      \* TRUE when a bad-argument handler is supplied
  argindex,   \* argindex of miniargv_get_next_arg_param
  pc,         \* "call", a stage name, or "done"
  todo,       \* stages still to run
  i,          \* loop variable of miniargv_process_partial
  standalonevaluedefset,
  standalonevaluedef,
  current_envdef,  \* position in envdef
  current_env,     \* position in env
  result,     \* result so far / return value
  log,        \* callback invocations, in order
  steps,      \* loop iterations of miniargv_process_partial, in order
  cfgdef,     \* configuration definitions
  cfgfile,    \* content of the configuration file
  cfgpos,     \* read position in cfgfile
  status,     \* status of miniargv_process_cfgfile
  userdata,   \* the integer argdef->userdata points to
  value,      \* value argument of a predefined callback
  run,        \* 1 in the first call of the entry point, 2 in the repeated one
  policy,     \* what the caller's callbacks return, by their arguments
  log1,       \* callback invocations of the first call
  result1     \* return value of the first call

vars ==
  << api, argv, env, argdef, envdef, badfn, argindex, pc, todo, i,
     standalonevaluedefset, standalonevaluedef, current_envdef, current_env,
     result, log, steps, cfgdef, cfgfile, cfgpos, status, userdata, value,
     run, policy, log1, result1 >>

inputs == << api, argv, env, argdef, envdef, badfn, argindex >>
argloop == << i, standalonevaluedefset, standalonevaluedef >>
envloop == << current_envdef, current_env >>
cfgvars == << cfgdef, cfgfile, cfgpos, status >>
cbvars == << userdata, value >>
runvars == << run, policy, log1, result1 >>
others == << cfgvars, cbvars, runvars >>

\* ------------------------------------------------------------- entry points
\* variant: miniargv_process runs the values pass before the flags pass
StagesValuesFirst(a, av, ev) ==
  IF a = "miniargv_process"
    THEN (IF ev # NoEnv THEN <<"env">> ELSE <<>>)
           \o (IF av # NoArgv THEN <<"values", "flags">> ELSE <<>>)
  ELSE IF a = "miniargv_process_ltr"
    THEN (IF ev # NoEnv THEN <<"env">> ELSE <<>>)
           \o (IF av # NoArgv THEN <<"both">> ELSE <<>>)
  ELSE IF a = "miniargv_process_arg" THEN <<"both">>
  ELSE IF a = "miniargv_process_arg_flags" THEN <<"flags">>
  ELSE IF a = "miniargv_process_arg_params" THEN <<"values">>
  ELSE IF a = "miniargv_get_next_arg_param" THEN <<"find">>
  ELSE <<"env">>

\* variant: miniargv_process reads the environment after the command line
StagesEnvLast(a, av, ev) ==
  IF a = "miniargv_process"
    THEN (IF av # NoArgv THEN <<"flags", "values">> ELSE <<>>)
           \o (IF ev # NoEnv THEN <<"env">> ELSE <<>>)
  ELSE IF a = "miniargv_process_ltr"
    THEN (IF ev # NoEnv THEN <<"env">> ELSE <<>>)
           \o (IF av # NoArgv THEN <<"both">> ELSE <<>>)
  ELSE IF a = "miniargv_process_arg" THEN <<"both">>
  ELSE IF a = "miniargv_process_arg_flags" THEN <<"flags">>
  ELSE IF a = "miniargv_process_arg_params" THEN <<"values">>
  ELSE IF a = "miniargv_get_next_arg_param" THEN <<"find">>
  ELSE <<"env">>

\* variant: miniargv_process makes one pass that dispatches both kinds
StagesSinglePass(a, av, ev) ==
  IF a \in {"miniargv_process", "miniargv_process_ltr"}
    THEN (IF ev # NoEnv THEN <<"env">> ELSE <<>>)
           \o (IF av # NoArgv THEN <<"both">> ELSE <<>>)
  ELSE IF a = "miniargv_process_arg" THEN <<"both">>
  ELSE IF a = "miniargv_process_arg_flags" THEN <<"flags">>
  ELSE IF a = "miniargv_process_arg_params" THEN <<"values">>
  ELSE IF a = "miniargv_get_next_arg_param" THEN <<"find">>
  ELSE <<"env">>

\* the stages an entry point runs, in order; each runs only while the
\* result so far is 0
Stages(a, av, ev) ==
  IF a = "miniargv_process"
    THEN (IF ev # NoEnv THEN <<"env">> ELSE <<>>)
           \o (IF av # NoArgv THEN <<"flags", "values">> ELSE <<>>)
  ELSE IF a = "miniargv_process_ltr"
    THEN (IF ev # NoEnv THEN <<"env">> ELSE <<>>)
           \o (IF av # NoArgv THEN <<"both">> ELSE <<>>)
  ELSE IF a = "miniargv_process_arg" THEN <<"both">>
  ELSE IF a = "miniargv_process_arg_flags" THEN <<"flags">>
  ELSE IF a = "miniargv_process_arg_params" THEN <<"values">>
  ELSE IF a = "miniargv_get_next_arg_param" THEN <<"find">>
  ELSE <<"env">>

\* variant: miniargv_process_arg passes the flags bit only
StageFlagsBothAsFlags(stage) ==
  IF stage = "flags" THEN MINIARG_PROCESS_FLAG_FLAGS
  ELSE IF stage = "values" THEN MINIARG_PROCESS_FLAG_VALUES
  ELSE IF stage = "both" THEN MINIARG_PROCESS_FLAG_FLAGS
  ELSE MINIARG_PROCESS_FLAG_FIND_VALUE

\* variant: miniargv_get_next_arg_param passes the dispatching bits only
StageFlagsFindAsBoth(stage) ==
  IF stage = "flags" THEN MINIARG_PROCESS_FLAG_FLAGS
  ELSE IF stage = "values" THEN MINIARG_PROCESS_FLAG_VALUES
  ELSE MINIARG_PROCESS_FLAG_BOTH

\* the flags argument a stage passes to miniargv_process_partial
StageFlags(stage) ==
  IF stage = "flags" THEN MINIARG_PROCESS_FLAG_FLAGS
  ELSE IF stage = "values" THEN MINIARG_PROCESS_FLAG_VALUES
  ELSE IF stage = "both" THEN MINIARG_PROCESS_FLAG_BOTH
  ELSE MINIARG_PROCESS_FLAG_FIND_VALUE

ArgStages == {"flags", "values", "both", "find"}

\* variant: i is a static that keeps its value from the previous call
StartIndexStatic(flags, idx) ==
  IF i > 0 THEN i
  ELSE IF ~HasFlag(flags, MINIARG_PROCESS_FLAG_FIND_ONLY) THEN 1 ELSE idx + 1

\* variant: the loop of the dispatching modes starts after the first argument
StartIndexAfterFirst(flags, idx) ==
  IF ~HasFlag(flags, MINIARG_PROCESS_FLAG_FIND_ONLY) THEN 2 ELSE idx + 1

\* the first value of the loop variable i
StartIndex(flags, idx) ==
  IF ~HasFlag(flags, MINIARG_PROCESS_FLAG_FIND_ONLY) THEN 1 ELSE idx + 1

InitInputs ==
  \/ /\ api \in ArgApis
     /\ argv \in Argvs
     /\ env = NoEnv
     /\ argdef \in ArgTables
     /\ argindex \in (IF api = "miniargv_get_next_arg_param"
                        THEN 0..Len(argv) ELSE {0})
     /\ badfn \in BOOLEAN
  \/ /\ api \in EnvApis
     /\ argv \in (IF api = "miniargv_process_env" THEN {NoArgv} ELSE ArgvsWithEnv)
     /\ env \in SeqsUpTo(EnvEntries, MaxEnv)
     /\ argdef = TableBasic
     /\ argindex = 0
     /\ badfn \in (IF api = "miniargv_process_env" THEN {FALSE} ELSE BOOLEAN)

\* no configuration file is read
NoCfg ==
  /\ cfgdef = <<>>
  /\ cfgfile = <<>>
  /\ cfgpos = 0
  /\ status = 0

\* no predefined callback is called
NoPredef ==
  /\ userdata = 0
  /\ value = NoStr

\* the entry point is called once, with callbacks free in what they return
SingleRun ==
  /\ run = 1
  /\ policy = [def |-> 0, bad |-> FALSE]
  /\ log1 = <<>>
  /\ result1 = 0

Init ==
  /\ InitInputs
  /\ NoCfg
  /\ NoPredef
  /\ SingleRun
  /\ envdef = EnvTable
  /\ pc = "call"
  /\ todo = Stages(api, argv, env)
  /\ i = 0
  /\ standalonevaluedefset = FALSE
  /\ standalonevaluedef = 0
  /\ current_envdef = 0
  /\ current_env = 0
  /\ result = 0
  /\ log = <<>>
  /\ steps = <<>>

\* ------------------------------------------------------------- actions
\* the entry point starts its next stage (result == 0 so far)
BeginStage ==
  /\ pc = "call"
  /\ todo # <<>>
  /\ result = 0
  /\ pc' = Head(todo)
  /\ todo' = Tail(todo)
  /\ IF Head(todo) = "env"
       THEN /\ current_envdef' = 1
            /\ current_env' = 1
            /\ UNCHANGED argloop
       ELSE /\ i' = StartIndex(StageFlags(Head(todo)), argindex)
            /\ standalonevaluedefset' = FALSE
            /\ standalonevaluedef' = 0
            /\ UNCHANGED envloop
  /\ UNCHANGED << inputs, others, result, log, steps >>

\* the entry point returns: no stage left, or a stage gave a non-zero result
Return ==
  /\ pc = "call"
  /\ (todo = <<>> \/ result # 0)
  /\ pc' = "done"
  /\ UNCHANGED << inputs, others, todo, argloop, envloop, result, log, steps >>

\* log records: a call of entry def's callback (kind "cb", "env") or of the
\* bad-argument handler (kind "bad") with value val, made by the iteration
\* that started at index from when the cursor was at index at
CbCall(stage, d, val, from, at, ret) ==
  [kind |-> "cb", stage |-> stage, def |-> d, val |-> val,
   from |-> from, at |-> at, ret |-> ret]
BadCall(stage, val, from, at, ret) ==
  [kind |-> "bad", stage |-> stage, def |-> 0, val |-> val,
   from |-> from, at |-> at, ret |-> ret]

\* one iteration of the loop of miniargv_process_partial on argv[i]:
\* resolution, the callback, the bad-argument handler, and either the i++
\* of the loop or the return
ArgStep ==
  /\ pc \in ArgStages
  /\ i <= Len(argv)
  /\ LET flags == StageFlags(pc)
         standalone == Classify(argv[i]) = "standalone"
         sdef == CachedStandalone(argdef, standalonevaluedefset, standalonevaluedef)
         m == Match(argv, i, argdef, sdef)
         calls == m.kind # "none" /\ Dispatches(flags, m.kind)
         finds == m.kind # "none" /\ Finds(flags, m.kind)
     IN  /\ standalonevaluedefset' = (standalonevaluedefset \/ standalone)
         /\ standalonevaluedef' = (IF standalone THEN sdef ELSE standalonevaluedef)
         /\ IF finds
              THEN /\ result' = m.i
                   /\ pc' = "call"
                   /\ i' = m.i
                   /\ log' = log
                   /\ steps' = Append(steps, [stage |-> pc, from |-> i, to |-> m.i, out |-> "found"])
              ELSE \E rc \in (IF calls THEN CbCodes ELSE {0}) :
                     LET matched == IF calls THEN rc = 0 ELSE m.kind # "none"
                         callsbad == ~matched /\ badfn
                     IN  \E rb \in (IF callsbad THEN CbCodes ELSE {0}) :
                           LET success == matched \/ (callsbad /\ rb = 0)
                           IN  /\ log' = log
                                    \o (IF calls
                                          THEN <<CbCall(pc, m.def, m.val, i, m.i, rc)>>
                                          ELSE <<>>)
                                    \o (IF callsbad
                                          THEN <<BadCall(pc, argv[m.i], i, m.i, rb)>>
                                          ELSE <<>>)
                               /\ steps' = Append(steps,
                                    [stage |-> pc, from |-> i, to |-> m.i,
                                     out |-> IF success THEN "next" ELSE "abort"])
                               /\ IF success
                                    THEN /\ i' = m.i + 1
                                         /\ UNCHANGED << pc, result >>
                                    ELSE /\ i' = m.i
                                         /\ result' = AbortCode(flags, m.i)
                                         /\ pc' = "call"
  /\ UNCHANGED << inputs, others, todo, envloop >>

\* argv[i] is the terminating NULL: miniargv_process_partial returns 0
ArgEnd ==
  /\ pc \in ArgStages
  /\ i > Len(argv)
  /\ result' = 0
  /\ pc' = "call"
  /\ UNCHANGED << inputs, others, todo, argloop, envloop, log, steps >>

EnvCall(d, val, at, ret) ==
  [kind |-> "env", stage |-> "env", def |-> d, val |-> val,
   from |-> at, at |-> at, ret |-> ret]

\* variant: an entry with an empty VALUE triggers no callback
EnvFitsValued(entry, longarg) ==
  LET s == StrChr(entry, "=")
  IN  s # -1 /\ StrNCmpEq(entry, longarg, s) /\ At(entry, s + 1) # NUL

\* whether an environment entry triggers the callback of a definition
EnvFits(entry, longarg) ==
  LET s == StrChr(entry, "=")
  IN  s # -1 /\ StrNCmpEq(entry, longarg, s)

\* one step of miniargv_process_env: the pair (current_envdef, current_env)
EnvStep ==
  /\ pc = "env"
  /\ current_envdef <= Len(envdef)
  /\ IF envdef[current_envdef].longarg = NoStr \/ current_env > Len(env)
       THEN /\ current_envdef' = current_envdef + 1
            /\ current_env' = 1
            /\ UNCHANGED << pc, result, log >>
       ELSE LET entry == env[current_env]
                longarg == envdef[current_envdef].longarg
            IN  IF EnvFits(entry, longarg)
                  THEN \E rc \in EnvCbCodes :
                         /\ log' = Append(log, EnvCall(current_envdef,
                                       StrFrom(entry, StrChr(entry, "=") + 1),
                                       current_env, rc))
                         /\ IF rc # 0
                              THEN /\ result' = rc
                                   /\ pc' = "call"
                                   /\ UNCHANGED envloop
                              ELSE /\ current_env' = current_env + 1
                                   /\ UNCHANGED << current_envdef, pc, result >>
                  ELSE /\ current_env' = current_env + 1
                       /\ UNCHANGED << current_envdef, pc, result, log >>
  /\ UNCHANGED << inputs, others, todo, argloop, steps >>

\* current_envdef is the sentinel: miniargv_process_env returns 0
EnvEnd ==
  /\ pc = "env"
  /\ current_envdef > Len(envdef)
  /\ result' = 0
  /\ pc' = "call"
  /\ UNCHANGED << inputs, others, todo, argloop, envloop, log, steps >>

Next == BeginStage \/ Return \/ ArgStep \/ ArgEnd \/ EnvStep \/ EnvEnd

Spec == Init /\ [][Next]_vars

\* ------------------------------------------------------------- config file
MaxCfg == 2

LF == "\n"
CR == "\r"

\* isspace(c) for the characters of the model's files
IsSpace(c) == c \in {" ", "\t", LF, CR, "\f"}

\* a configuration definition: as Def, with the help text and with the
\* argparam string itself (NoStr when NULL)
CfgDef(s, l, h, p) == [shortarg |-> s, longarg |-> l, help |-> h, argparam |-> p]

\* what miniargv_cfgfile_generate prints for one named definition
CfgLines(d) ==
  <<";", " ">> \o d.longarg \o <<LF>>
    \o <<";", " ", " ", " ">> \o d.help \o <<LF>>
    \o d.longarg \o <<" ", "=", " ">>
    \o (IF d.argparam # NoStr THEN d.argparam ELSE <<>>) \o <<LF>>

\* miniargv_cfgfile_generate: the text written for a table
RECURSIVE CfgFileGenerate(_)
CfgFileGenerate(defs) ==
  IF defs = <<>>
    THEN <<>>
    ELSE (IF Head(defs).longarg # NoStr THEN CfgLines(Head(defs)) ELSE <<>>)
           \o CfgFileGenerate(Tail(defs))

\* readline at offset pos of the file: the line without its line end (LF,
\* or CR LF) and the offset after it; NoStr at the end of the file
ReadLine(file, pos) ==
  IF pos >= Len(file)
    THEN [line |-> NoStr, pos |-> pos]
    ELSE LET rest == StrFrom(file, pos)
             nl == StrChr(rest, LF)
         IN  IF nl = -1
               THEN [line |-> rest, pos |-> Len(file)]
               ELSE [line |-> IF nl > 0 /\ rest[nl] = CR
                                THEN SubSeq(rest, 1, nl - 1)
                                ELSE SubSeq(rest, 1, nl),
                     pos |-> pos + nl + 1]

\* while (*p && isspace(*p)) p++
SkipSpaces(s, k) ==
  CHOOSE j \in k..Len(s) :
    /\ j = Len(s) \/ ~IsSpace(At(s, j))
    /\ \A m \in k..(j - 1) : IsSpace(At(s, m))

\* while (p != lo && isspace(*(p - 1))) p--, from p = hi
TrimBack(s, lo, hi) ==
  CHOOSE j \in lo..hi :
    /\ j = lo \/ ~IsSpace(At(s, j - 1))
    /\ \A m \in j..(hi - 1) : IsSpace(At(s, m))

CfgDelimiters == {NUL, "=", ":", "#", ";"}

\* while (*p && *p != '=' && *p != ':' && *p != '#' && *p != ';') p++
ScanDelimiter(s, k) ==
  CHOOSE j \in k..Len(s) :
    /\ At(s, j) \in CfgDelimiters
    /\ \A m \in k..(j - 1) : At(s, m) \notin CfgDelimiters

\* what a line of the file is split into: varname (the line from its first
\* non-space character), varnamelen and the trimmed value; set is FALSE for
\* a line that assigns nothing
ParseLine(line) ==
  LET v == SkipSpaces(line, 0)
      p == ScanDelimiter(line, v)
      e == TrimBack(line, v, p)
      val == SkipSpaces(line, Min(p + 1, Len(line)))
  IN  IF At(line, v) # NUL /\ At(line, p) \in {"=", ":"} /\ e # v
        THEN [set |-> TRUE, varname |-> StrFrom(line, v), varnamelen |-> e - v,
              value |-> SubSeq(line, val + 1, TrimBack(line, val, Len(line)))]
        ELSE [set |-> FALSE, varname |-> NoStr, varnamelen |-> 0, value |-> NoStr]

\* the definition whose callback a variable name triggers, 0 when none
FindCfgDef(defs, varname, varnamelen) ==
  First({d \in 1..Len(defs) :
           /\ defs[d].longarg # NoStr
           /\ StrNCmpEq(varname, defs[d].longarg, varnamelen)})

\* the definitions configuration tables are made of: a name, a name it is a
\* prefix of, an unrelated name and a definition without a long name
CfgDefs ==
  { CfgDef(NUL, <<"K">>, <<"h", "=", "1">>, <<"r">>),
    CfgDef(NUL, <<"K", "L">>, <<"h">>, <<"r", " ", "s">>),
    CfgDef(NUL, <<"M">>, <<"h">>, NoStr),
    CfgDef("x", NoStr, <<"h">>, NoStr) }

\* tables of at most MaxCfg different definitions
CfgTables ==
  {t \in SeqsUpTo(CfgDefs, MaxCfg) :
     Len(t) > 0 /\ \A m, n \in 1..Len(t) : m # n => t[m] # t[n]}

\* a hand-written file: CR LF line end, ':' delimiter, comment, empty
\* variable name, empty value, and a last line without delimiter or line end
CfgFileExample ==
  <<" ", "K", " ", ":", " ", "r", " ", CR, LF,
    "#", "K", "L", "=", "r", LF,
    "=", "r", LF,
    "M", "=", LF,
    "K">>

InitCfg ==
  /\ api = "miniargv_process_cfgfile"
  /\ cfgdef \in CfgTables
  /\ cfgfile \in {CfgFileGenerate(cfgdef), CfgFileExample, NoStr}
  /\ cfgpos = 0
  /\ status = 0
  /\ argv = NoArgv
  /\ env = NoEnv
  /\ argdef = <<>>
  /\ envdef = <<>>
  /\ badfn = FALSE
  /\ argindex = 0
  /\ pc = "call"
  /\ todo = <<>>
  /\ i = 0
  /\ standalonevaluedefset = FALSE
  /\ standalonevaluedef = 0
  /\ current_envdef = 0
  /\ current_env = 0
  /\ result = 0
  /\ log = <<>>
  /\ steps = <<>>
  /\ NoPredef
  /\ SingleRun

CfgCall(d, val, at, ret) ==
  [kind |-> "cfg", stage |-> "cfg", def |-> d, val |-> val,
   from |-> at, at |-> at, ret |-> ret]

\* fopen: a file that cannot be opened (NoStr) is not read at all
CfgOpen ==
  /\ api = "miniargv_process_cfgfile"
  /\ pc = "call"
  /\ IF cfgfile = NoStr
       THEN /\ pc' = "done"
            /\ result' = 0
       ELSE /\ pc' = "cfg"
            /\ UNCHANGED result
  /\ UNCHANGED << inputs, cfgvars, cbvars, runvars, todo, argloop, envloop,
                  log, steps >>

\* one iteration of the loop of miniargv_process_cfgfile: a line is read,
\* split, and the callback of the first definition that fits is called
CfgLine ==
  /\ pc = "cfg"
  /\ status = 0
  /\ ReadLine(cfgfile, cfgpos).line # NoStr
  /\ LET r == ReadLine(cfgfile, cfgpos)
         l == ParseLine(r.line)
         d == IF l.set THEN FindCfgDef(cfgdef, l.varname, l.varnamelen) ELSE 0
     IN  /\ cfgpos' = r.pos
         /\ IF d # 0
              THEN \E rc \in CbCodes :
                     /\ status' = rc
                     /\ log' = Append(log, CfgCall(d, l.value, cfgpos, rc))
              ELSE UNCHANGED << status, log >>
  /\ UNCHANGED << inputs, cfgdef, cfgfile, cbvars, runvars, pc, todo, argloop,
                  envloop, result, steps >>

\* the loop ends (status != 0 or no line left) and the function returns
CfgReturn ==
  /\ pc = "cfg"
  /\ status # 0 \/ ReadLine(cfgfile, cfgpos).line = NoStr
  /\ result' = 0
  /\ pc' = "done"
  /\ UNCHANGED << inputs, cfgvars, cbvars, runvars, todo, argloop, envloop,
                  log, steps >>

NextCfg == CfgOpen \/ CfgLine \/ CfgReturn

SpecCfg == InitCfg /\ [][NextCfg]_vars

\* ------------------------------------------------------------- enumeration
\* a caller that enumerates the standalone values with
\* miniargv_get_next_arg_param, from argindex 0 until it returns 0, and then
\* processes the same command line with miniargv_process_arg_params
ArgvsLoop ==
  Argvs \cup
    { << <<"r">>, <<"-", "o">>, <<"r">>, <<"i">> >>,
      << <<"-", "o">>, <<"-", "o">>, <<"r">>, <<"-", "v">> >> }

InitLoop ==
  /\ api = "miniargv_get_next_arg_param"
  /\ argv \in ArgvsLoop
  /\ env = NoEnv
  /\ argdef \in ArgTables
  /\ envdef = EnvTable
  /\ argindex = 0
  /\ badfn \in BOOLEAN
  /\ pc = "call"
  /\ todo = <<"find", "values">>
  /\ i = 0
  /\ standalonevaluedefset = FALSE
  /\ standalonevaluedef = 0
  /\ current_envdef = 0
  /\ current_env = 0
  /\ result = 0
  /\ log = <<>>
  /\ steps = <<>>
  /\ NoCfg
  /\ NoPredef
  /\ SingleRun

\* the caller passes the index it got back as the next argindex
NextParam ==
  /\ api = "miniargv_get_next_arg_param"
  /\ pc = "call"
  /\ todo = <<"values">>
  /\ result > 0
  /\ argindex' = result
  /\ result' = 0
  /\ todo' = <<"find", "values">>
  /\ UNCHANGED << api, argv, env, argdef, envdef, badfn, others, pc, argloop,
                  envloop, log, steps >>

NextLoop == BeginStage \/ Return \/ ArgStep \/ ArgEnd \/ NextParam

SpecLoop == InitLoop /\ [][NextLoop]_vars

\* ------------------------------------------------------------- properties
Done == pc = "done"

\* the token forms, read off the token's characters
ShortForm(tok) == Len(tok) >= 2 /\ tok[1] = "-" /\ tok[2] # "-"
DashDash(tok) == Len(tok) >= 2 /\ tok[1] = "-" /\ tok[2] = "-"

\* entries with an identifier (flags) and without (standalone values)
IsFlagDef(d) == argdef[d].shortarg # NUL \/ argdef[d].longarg # NoStr
IsValueDef(d) == argdef[d].shortarg = NUL /\ argdef[d].longarg = NoStr

\* positions of the log that are option callbacks of the argument stages
CbAt == {k \in 1..Len(log) : log[k].kind = "cb"}
BadAt == {k \in 1..Len(log) : log[k].kind = "bad"}

\* C1: once an option callback has returned non-zero the traversal has
\* halted: that call is the last invocation of any kind, no stage is running
\* and the result is non-zero.
C1_CallbackFailureHalts ==
  \A k \in CbAt :
    log[k].ret # 0 =>
      /\ k = Len(log)
      /\ pc \in {"call", "done"}
      /\ result # 0

\* whether entry d carries the identifier token tok asks for: its short
\* character, its long name followed by the end of the token or '=', or
\* (for a token that is neither) no identifier at all
LongNameFits(tok, n) ==
  /\ n # NoStr
  /\ Len(tok) >= 2 + Len(n)
  /\ SubSeq(tok, 3, 2 + Len(n)) = n
  /\ (Len(tok) = 2 + Len(n) \/ tok[3 + Len(n)] = "=")
IdentifierFits(d, tok) ==
  IF ShortForm(tok) THEN argdef[d].shortarg = tok[2]
  ELSE IF DashDash(tok) THEN LongNameFits(tok, argdef[d].longarg)
  ELSE IsValueDef(d)

\* C2: table order is the tie-break: every option callback invoked for a
\* token belongs to the lowest-index entry whose identifier fits the token
\* (short character, long name followed by end-of-token or '=', or absence
\* of both); no later entry with the same identifier is invoked for it.
C2_FirstEntryWins ==
  \A k \in CbAt :
    LET d == log[k].def
        tok == argv[log[k].from]
    IN  /\ IdentifierFits(d, tok)
        /\ \A e \in 1..(d - 1) : ~IdentifierFits(e, tok)

\* a callback was invoked for a token that a later entry also fits
C2_Witness ==
  \E k \in CbAt :
    \E e \in (log[k].def + 1)..Len(argdef) :
      IdentifierFits(e, argv[log[k].from])

\* what the engine resolves the token at index p to
Resolved(p) == Match(argv, p, argdef, FindStandaloneDef(argdef))

TwoPass == api = "miniargv_process" /\ argv # NoArgv

\* C3: in two-pass mode flag callbacks run only in the flags pass and
\* standalone-value callbacks only in the values pass, every flag callback
\* precedes every standalone-value callback, the standalone-value callbacks
\* run in increasing token order, no token is dispatched twice, and each
\* token a pass has visited and resolved was dispatched exactly once by the
\* pass it belongs to (all of them once the call has returned 0).
C3_FlagsBeforeValues ==
  TwoPass =>
    /\ \A k \in CbAt :
         /\ IsFlagDef(log[k].def) => log[k].stage = "flags"
         /\ IsValueDef(log[k].def) => log[k].stage = "values"
    /\ \A j, k \in CbAt :
         /\ (IsValueDef(log[j].def) /\ IsFlagDef(log[k].def)) => k < j
         /\ (j < k /\ IsValueDef(log[j].def) /\ IsValueDef(log[k].def))
              => log[j].from < log[k].from
         /\ j # k => log[j].from # log[k].from
    /\ \A n \in 1..Len(steps) :
         LET st == steps[n]
             m == Resolved(st.from)
         IN  /\ (st.stage = "flags" /\ m.kind = "flag") =>
                  \E k \in CbAt :
                    /\ log[k].from = st.from
                    /\ log[k].def = m.def
                    /\ log[k].stage = "flags"
             /\ (st.stage = "values" /\ m.kind = "value") =>
                  \E k \in CbAt :
                    /\ log[k].from = st.from
                    /\ log[k].def = m.def
                    /\ log[k].stage = "values"
    /\ (Done /\ result = 0) =>
         \A p \in 1..Len(argv) :
           \A stage \in {"flags", "values"} :
             \E n \in 1..Len(steps) :
               /\ steps[n].stage = stage
               /\ (steps[n].from = p \/ steps[n].to = p)

\* a completed two-pass call in which a standalone value stands before a
\* flag on the command line and both were dispatched
C3_Witness ==
  /\ TwoPass
  /\ Done
  /\ result = 0
  /\ \E j, k \in CbAt :
       /\ IsFlagDef(log[j].def)
       /\ IsValueDef(log[k].def)
       /\ log[k].from < log[j].from
       /\ j < k

LeftToRight ==
  api \in {"miniargv_process_arg", "miniargv_process_ltr"} /\ argv # NoArgv

OptionCalls == SelectSeq(log, LAMBDA r : r.kind = "cb")

ExampleArgv == << <<"-", "v">>, <<"-", "o", "r">>, <<"i">> >>

\* C4: in combined left-to-right mode, when every token resolves and every
\* callback returns 0, there is exactly one callback per resolved argument
\* (a flag with its extracted value, a standalone value with its raw token),
\* in strictly increasing token order, every token is covered, and the call
\* returns 0; -v -or i against -v/--vb, -o/--ou VALUE and a standalone-value
\* entry gives verbose(NULL), output("r"), standalone("i").
C4_LeftToRightOrder ==
  ( /\ LeftToRight
    /\ Done
    /\ \A k \in 1..Len(log) : log[k].ret = 0
    /\ \A n \in 1..Len(steps) : Resolved(steps[n].from).kind # "none" )
  =>
    /\ result = 0
    /\ BadAt = {}
    /\ Len(OptionCalls) = Len(steps)
    /\ \A n \in 1..Len(steps) :
         /\ OptionCalls[n].from = steps[n].from
         /\ OptionCalls[n].def = Resolved(steps[n].from).def
         /\ OptionCalls[n].val = Resolved(steps[n].from).val
         /\ n > 1 => steps[n - 1].from < steps[n].from
    /\ \A p \in 1..Len(argv) :
         \E n \in 1..Len(steps) : steps[n].from = p \/ steps[n].to = p
    /\ (argv = ExampleArgv /\ argdef = TableBasic) =>
         /\ Len(OptionCalls) = 3
         /\ OptionCalls[1].def = 1 /\ OptionCalls[1].val = NoStr
         /\ OptionCalls[2].def = 2 /\ OptionCalls[2].val = <<"r">>
         /\ OptionCalls[3].def = 3 /\ OptionCalls[3].val = <<"i">>

\* the documented example has run to completion
C4_Witness ==
  /\ api = "miniargv_process_arg"
  /\ Done
  /\ argv = ExampleArgv
  /\ argdef = TableBasic
  /\ Len(log) = 3
  /\ \A k \in 1..Len(log) : log[k].kind = "cb" /\ log[k].ret = 0
  /\ result = 0

\* C5: without a bad-argument handler, a token that resolves to no
\* definition aborts a non-find traversal: its iteration is the last one,
\* the call returns the token's index (at least 1), and no callback was
\* invoked for that token or for a later one.
C5_UnmatchedAborts ==
  ~badfn =>
    \A n \in 1..Len(steps) :
      LET st == steps[n]
      IN  (st.stage # "find" /\ Resolved(st.from).kind = "none") =>
            /\ n = Len(steps)
            /\ st.out = "abort"
            /\ pc \in {"call", "done"}
            /\ result = st.from
            /\ result >= 1
            /\ \A k \in 1..Len(log) :
                 log[k].kind \in {"cb", "bad"} => log[k].from < st.from

\* input -x against the example table without a handler returned 1 and
\* invoked nothing
C5_Witness ==
  /\ api = "miniargv_process_arg"
  /\ Done
  /\ ~badfn
  /\ argv = << <<"-", "x">> >>
  /\ argdef = TableBasic
  /\ result = 1
  /\ log = <<>>

FullTraversal == api \in {"miniargv_process", "miniargv_process_ltr"}

\* C6: a full traversal returns 0 or the positive index of an argv token,
\* whatever the callbacks return.
C6_ReturnIsZeroOrIndex ==
  (FullTraversal /\ Done) =>
    \/ result = 0
    \/ argv # NoArgv /\ result \in 1..Len(argv)

\* log positions of the option callbacks iteration n made
StepCalls(n) ==
  {k \in CbAt : log[k].stage = steps[n].stage /\ log[k].from = steps[n].from}
StepBadCalls(n) ==
  {k \in BadAt : log[k].stage = steps[n].stage /\ log[k].from = steps[n].from}

HasValueDef == \E d \in 1..Len(argdef) : IsValueDef(d)

\* iteration n treated its token as a token of the given class: a
\* standalone value goes to the standalone-value entry when the table has
\* one (dispatched in the values and combined modes, returned by find-only,
\* passed over by the flags pass), a short flag only to an entry with its
\* short character, a long flag only to an entry with a long name
HandledAs(class, n) ==
  LET st == steps[n]
      tok == argv[st.from]
  IN  IF class = "standalone"
        THEN /\ \A k \in StepCalls(n) : IsValueDef(log[k].def)
             /\ (HasValueDef /\ st.stage \in {"values", "both"}) =>
                  \E k \in StepCalls(n) : log[k].val = tok
             /\ (HasValueDef /\ st.stage = "find") => st.out = "found"
             /\ (HasValueDef /\ st.stage = "flags") => st.out = "next"
      ELSE IF class = "short"
        THEN /\ \A k \in StepCalls(n) : argdef[log[k].def].shortarg = tok[2]
             /\ st.out # "found"
      ELSE /\ \A k \in StepCalls(n) : argdef[log[k].def].longarg # NoStr
           /\ st.out # "found"

\* the classes as claimed: "--" needs a non-empty name to be a long flag
ClassAsClaimed(tok) ==
  IF ShortForm(tok) THEN "short"
  ELSE IF DashDash(tok) /\ Len(tok) > 2 THEN "long"
  ELSE "standalone"

\* the classes as amended: every token that begins with "--" is a long flag
ClassAsAmended(tok) ==
  IF ShortForm(tok) THEN "short"
  ELSE IF DashDash(tok) THEN "long"
  ELSE "standalone"

\* C7 as claimed: a token is a short flag iff it is '-' and a non-'-'
\* character, a long flag iff it is "--" and a non-empty name, a standalone
\* value otherwise; a bare "-" and a bare "--" go to the standalone-value
\* entry when the table has one.
C7_ClassesAsClaimed ==
  \A n \in 1..Len(steps) : HandledAs(ClassAsClaimed(argv[steps[n].from]), n)

\* C7 as amended: a token is a short flag iff it is '-' and a non-'-'
\* character, a long flag iff it begins with "--" (the name may be empty),
\* a standalone value otherwise; a bare "-" goes to the standalone-value
\* entry when the table has one, a bare "--" never does.
C7_Classes ==
  \A n \in 1..Len(steps) :
    /\ HandledAs(ClassAsAmended(argv[steps[n].from]), n)
    /\ argv[steps[n].from] = <<"-", "-">> =>
         \A k \in StepCalls(n) : ~IsValueDef(log[k].def)

\* a bare "-" was dispatched to the standalone-value entry and a bare "--"
\* after it was not, although the table has such an entry
C7_Witness ==
  /\ HasValueDef
  /\ \E n, q \in 1..Len(steps) :
       /\ steps[n].stage = "both" /\ steps[q].stage = "both"
       /\ argv[steps[n].from] = <<"-">>
       /\ StepCalls(n) # {}
       /\ argv[steps[q].from] = <<"-", "-">>
       /\ StepCalls(q) = {}
       /\ steps[q].out = "abort"

\* the lowest entry whose long name fits the token, 0 when none does
LowestLong(tok) ==
  First({e \in 1..Len(argdef) : LongNameFits(tok, argdef[e].longarg)})

\* C8: a long-flag token reaches an entry only through the entry's full
\* long name followed by end-of-token or '='; a value-taking entry is called
\* for "--name=value" with the text after '=' (a present string, empty for
\* "--name="), an entry without value only for the exact "--name" and with
\* the absent value; a token that only extends a name reaches no entry.
C8_LongFlagMatch ==
  /\ \A k \in CbAt :
       LET tok == argv[log[k].from]
           d == log[k].def
           n == argdef[d].longarg
       IN  DashDash(tok) =>
             /\ LongNameFits(tok, n)
             /\ argdef[d].argparam =>
                  /\ Len(tok) > 2 + Len(n)
                  /\ log[k].val # NoStr
                  /\ log[k].val = SubSeq(tok, 4 + Len(n), Len(tok))
             /\ ~argdef[d].argparam =>
                  /\ tok = <<"-", "-">> \o n
                  /\ log[k].val = NoStr
  /\ \A q \in 1..Len(steps) :
       LET tok == argv[steps[q].from]
           d == LowestLong(tok)
       IN  (steps[q].stage \in {"flags", "both"} /\ DashDash(tok)) =>
             IF d = 0 THEN StepCalls(q) = {}
             ELSE LET n == argdef[d].longarg
                  IN  /\ (argdef[d].argparam /\ Len(tok) > 2 + Len(n)) =>
                           \E k \in StepCalls(q) :
                             /\ log[k].def = d
                             /\ log[k].val = SubSeq(tok, 4 + Len(n), Len(tok))
                      /\ (~argdef[d].argparam /\ Len(tok) = 2 + Len(n)) =>
                           \E k \in StepCalls(q) :
                             log[k].def = d /\ log[k].val = NoStr

\* "--ou=" called the value-taking entry with the empty string
C8_Witness ==
  \E k \in CbAt :
    /\ argv[log[k].from] = <<"-", "-", "o", "u", "=">>
    /\ argdef[log[k].def].argparam
    /\ log[k].val = <<>>

\* the lowest entry with the token's short character, 0 when there is none
LowestShort(tok) ==
  First({e \in 1..Len(argdef) : argdef[e].shortarg = tok[2]})

TakesValue(tok) ==
  /\ ShortForm(tok)
  /\ LowestShort(tok) # 0
  /\ argdef[LowestShort(tok)].argparam

\* the value rules of a value-taking short flag: attached characters are
\* the value and the cursor moves on by one; otherwise the following token
\* is the value, the cursor moves on by two and no iteration of the same
\* pass starts at the following token
ShortValueRules(q) ==
  LET st == steps[q]
      tok == argv[st.from]
  IN  TakesValue(tok) =>
        /\ Len(tok) > 2 =>
             /\ st.to = st.from
             /\ \A k \in StepCalls(q) : log[k].val = SubSeq(tok, 3, Len(tok))
             /\ st.stage \in {"flags", "both"} => StepCalls(q) # {}
        /\ (Len(tok) = 2 /\ st.from < Len(argv)) =>
             /\ st.to = st.from + 1
             /\ \A k \in StepCalls(q) : log[k].val = argv[st.from + 1]
             /\ st.stage \in {"flags", "both"} => StepCalls(q) # {}
             /\ \A r \in 1..Len(steps) :
                  steps[r].stage = st.stage => steps[r].from # st.from + 1

\* C9: the value rules hold in every mode, and the following token taken as
\* a value is never handed to the bad-argument handler in that traversal.
C9_ShortFlagValue ==
  \A q \in 1..Len(steps) :
    /\ ShortValueRules(q)
    /\ LET st == steps[q]
           tok == argv[st.from]
       IN  (TakesValue(tok) /\ Len(tok) = 2 /\ st.from < Len(argv)) =>
             \A k \in BadAt :
               log[k].stage = st.stage => log[k].at # st.from + 1

\* iteration q met a value-taking short flag as the last token
MissingValue(q) ==
  LET tok == argv[steps[q].from]
  IN  TakesValue(tok) /\ Len(tok) = 2 /\ steps[q].from = Len(argv)

\* the handling of a value-taking short flag that is the last token, the
\* value returned on abort being code
MissingValueHandled(q, code) ==
  LET st == steps[q]
  IN  /\ StepCalls(q) = {}
      /\ badfn =>
           \E k \in StepBadCalls(q) :
             log[k].val = argv[st.from] /\ log[k].at = st.from
      /\ ~badfn => StepBadCalls(q) = {}
      /\ (~badfn \/ \E k \in StepBadCalls(q) : log[k].ret # 0) =>
           /\ q = Len(steps)
           /\ st.out = "abort"
           /\ pc \in {"call", "done"}
           /\ result = code

\* C10 as claimed: no callback, the handler (if any) gets the flag token,
\* and without a handler or when it fails the traversal returns the flag
\* token's index.
C10_MissingValueAsClaimed ==
  \A q \in 1..Len(steps) :
    MissingValue(q) => MissingValueHandled(q, steps[q].from)

\* C10 as amended: the same, the value returned being the flag token's
\* index in the flags, values and combined modes and -1 in find-only mode.
C10_MissingValue ==
  \A q \in 1..Len(steps) :
    MissingValue(q) =>
      MissingValueHandled(q,
        IF steps[q].stage = "find" THEN -1 ELSE steps[q].from)

\* -o as the only argument: the handler got "-o", failed, and 1 was returned
C10_Witness ==
  /\ Done
  /\ badfn
  /\ api = "miniargv_process_arg"
  /\ argdef = TableBasic
  /\ argv = << <<"-", "o">> >>
  /\ Len(log) = 1
  /\ log[1].kind = "bad"
  /\ log[1].val = <<"-", "o">>
  /\ log[1].ret # 0
  /\ result = 1

\* ------------------------------------------------------------- repeated call
\* the caller's callbacks as functions of their arguments: the callback of
\* entry policy.def fails with 7, the bad-argument handler fails with 7 when
\* policy.bad, every other call returns 0
Policies == [def : 0..3, bad : BOOLEAN]

PolicyCode(c) ==
  IF c.kind = "bad"
    THEN (IF policy.bad THEN 7 ELSE 0)
    ELSE (IF c.def = policy.def THEN 7 ELSE 0)

FollowsPolicy(l) == \A k \in 1..Len(l) : l[k].ret = PolicyCode(l[k])

ArgvsTwice == ArgvExamples \cup (ArgvsWithEnv \ {NoArgv})

EnvsTwice ==
  { <<>>, << <<"K", "=", "r">> >>, << <<"K", "=", "r">>, <<"K", "L", "=">> >> }

\* the same entry point is called twice with the same arguments
InitTwice ==
  /\ \/ /\ api \in ArgApis
        /\ argv \in ArgvsTwice
        /\ env = NoEnv
        /\ argdef \in ArgTables
        /\ argindex \in (IF api = "miniargv_get_next_arg_param"
                           THEN 0..Len(argv) ELSE {0})
        /\ badfn \in BOOLEAN
     \/ /\ api \in EnvApis
        /\ argv \in (IF api = "miniargv_process_env" THEN {NoArgv} ELSE ArgvsWithEnv)
        /\ env \in EnvsTwice
        /\ argdef = TableBasic
        /\ argindex = 0
        /\ badfn \in (IF api = "miniargv_process_env" THEN {FALSE} ELSE BOOLEAN)
  /\ envdef = EnvTable
  /\ pc = "call"
  /\ todo = Stages(api, argv, env)
  /\ i = 0
  /\ standalonevaluedefset = FALSE
  /\ standalonevaluedef = 0
  /\ current_envdef = 0
  /\ current_env = 0
  /\ result = 0
  /\ log = <<>>
  /\ steps = <<>>
  /\ NoCfg
  /\ NoPredef
  /\ run = 1
  /\ policy \in Policies
  /\ log1 = <<>>
  /\ result1 = 0

\* the first call has returned: the caller keeps what it saw and calls
\* again; the locals of the engine are whatever the first call left
Rerun ==
  /\ pc = "done"
  /\ run = 1
  /\ run' = 2
  /\ log1' = log
  /\ result1' = result
  /\ pc' = "call"
  /\ todo' = Stages(api, argv, env)
  /\ result' = 0
  /\ log' = <<>>
  /\ steps' = <<>>
  /\ UNCHANGED << inputs, cfgvars, cbvars, policy, argloop, envloop >>

NextTwice ==
  \/ BeginStage
  \/ Return
  \/ ArgStep /\ FollowsPolicy(log')
  \/ ArgEnd
  \/ EnvStep /\ FollowsPolicy(log')
  \/ EnvEnd
  \/ Rerun

SpecTwice == InitTwice /\ [][NextTwice]_vars

\* ------------------------------------------------------------- predefined callbacks
\* widths of long and int in bits, scaled down with int narrower than long
LongBits == 8
IntBits == 5
\* longest value string
MaxDigits == 3

RECURSIVE Pow2(_)
Pow2(n) == IF n = 0 THEN 1 ELSE 2 * Pow2(n - 1)

LONG_MAX == Pow2(LongBits - 1) - 1
LONG_MIN == -Pow2(LongBits - 1)

\* (int)x for a long x: the value modulo 2^IntBits, as the compilers in use
\* define the conversion of a value out of range
ToInt(x) ==
  LET m == x % Pow2(IntBits)
  IN  IF m >= Pow2(IntBits - 1) THEN m - Pow2(IntBits) ELSE m

DecimalDigits == {"0", "1", "2", "3", "4", "5", "6", "7", "8", "9"}

DigitOf(c) ==
  CASE c = "0" -> 0 [] c = "1" -> 1 [] c = "2" -> 2 [] c = "3" -> 3
    [] c = "4" -> 4 [] c = "5" -> 5 [] c = "6" -> 6 [] c = "7" -> 7
    [] c = "8" -> 8 [] c = "9" -> 9

\* the number a digit string denotes, accumulated digit by digit and held
\* at the limit once it is beyond LONG_MAX + 1
RECURSIVE Accumulate(_)
Accumulate(ds) ==
  IF ds = <<>>
    THEN 0
    ELSE Min(10 * Accumulate(SubSeq(ds, 1, Len(ds) - 1)) + DigitOf(ds[Len(ds)]),
             LONG_MAX + 1)

\* strtol(s, &end, 10): blanks, an optional sign, digits; the value is
\* clamped to LONG_MIN..LONG_MAX; end is the offset after the last digit, 0
\* when there is no digit
StrToL(s) ==
  LET b == SkipSpaces(s, 0)
      neg == At(s, b) = "-"
      d == IF At(s, b) \in {"-", "+"} THEN b + 1 ELSE b
      e == CHOOSE j \in d..Len(s) :
             /\ At(s, j) \notin DecimalDigits
             /\ \A m \in d..(j - 1) : At(s, m) \in DecimalDigits
      n == Accumulate(SubSeq(s, d + 1, e))
  IN  IF e = d
        THEN [val |-> 0, end |-> 0]
        ELSE [val |-> IF neg THEN -n ELSE Min(n, LONG_MAX), end |-> e]

\* the return value of a predefined callback and the integer it leaves
CbOut(ret, data) == [ret |-> ret, userdata |-> data]

miniargv_cb_set_int(val, data) ==
  IF val = NoStr \/ val = <<>>
    THEN CbOut(1, data)
    ELSE LET r == StrToL(val)
         IN  IF At(val, r.end) # NUL THEN CbOut(2, data)
             ELSE IF r.val = LONG_MIN THEN CbOut(3, data)
             ELSE IF r.val = LONG_MAX THEN CbOut(4, data)
             ELSE CbOut(0, ToInt(r.val))

miniargv_cb_increment_int(val, data) == CbOut(0, data + 1)
miniargv_cb_decrement_int(val, data) == CbOut(0, data - 1)
miniargv_cb_increment_long(val, data) == CbOut(0, data - 1)
miniargv_cb_decrement_long(val, data) == CbOut(0, data + 1)

StepCallbacks ==
  {"miniargv_cb_increment_int", "miniargv_cb_decrement_int",
   "miniargv_cb_increment_long", "miniargv_cb_decrement_long"}

Predefined(cb, val, data) ==
  CASE cb = "miniargv_cb_set_int" -> miniargv_cb_set_int(val, data)
    [] cb = "miniargv_cb_increment_int" -> miniargv_cb_increment_int(val, data)
    [] cb = "miniargv_cb_decrement_int" -> miniargv_cb_decrement_int(val, data)
    [] cb = "miniargv_cb_increment_long" -> miniargv_cb_increment_long(val, data)
    [] cb = "miniargv_cb_decrement_long" -> miniargv_cb_decrement_long(val, data)

\* value strings: digits, sign, blank and a character that is none of these
ValueChars == {"1", "9", "-", " ", "x"}
Values == SeqsUpTo(ValueChars, MaxDigits) \cup {NoStr}

\* the integer before the call, away from the limits of its type
Targets == {-1, 0, 5}

InitCb ==
  /\ \/ api = "miniargv_cb_set_int" /\ value \in Values
     \/ api \in StepCallbacks /\ value = NoStr
  /\ userdata \in Targets
  /\ NoCfg
  /\ SingleRun
  /\ argv = NoArgv
  /\ env = NoEnv
  /\ argdef = <<>>
  /\ envdef = <<>>
  /\ badfn = FALSE
  /\ argindex = 0
  /\ pc = "call"
  /\ todo = <<>>
  /\ i = 0
  /\ standalonevaluedefset = FALSE
  /\ standalonevaluedef = 0
  /\ current_envdef = 0
  /\ current_env = 0
  /\ result = 0
  /\ log = <<>>
  /\ steps = <<>>

\* the callback is called once
CbApply ==
  /\ pc = "call"
  /\ LET out == Predefined(api, value, userdata)
     IN  /\ userdata' = out.userdata
         /\ result' = out.ret
         /\ log' = <<[kind |-> "predef", cb |-> api, val |-> value,
                      before |-> userdata, after |-> out.userdata,
                      ret |-> out.ret]>>
  /\ pc' = "done"
  /\ UNCHANGED << inputs, cfgvars, value, runvars, todo, argloop, envloop,
                  steps >>

NextCb == CbApply

SpecCb == InitCb /\ [][NextCb]_vars

\* ------------------------------------------------------------- program name
\* longest argv[0]
MaxName == 3

\* miniargv_getprogramname (not _WIN32): the returned string (NoStr for
\* NULL) and the value stored through length
miniargv_getprogramname(argv0) ==
  IF argv0 = NoStr \/ argv0 = <<>>
    THEN [ret |-> NoStr, length |-> 0]
    ELSE LET len == Len(argv0)
             stops == {q \in 1..len : q <= 1 \/ At(argv0, q - 1) = "/"}
             pos == CHOOSE q \in stops : \A r \in stops : r <= q
         IN  [ret |-> StrFrom(argv0, pos), length |-> len - pos]

NameChars == {"a", "b", "/", "."}
Names == SeqsUpTo(NameChars, MaxName) \cup {NoStr}

\* value is argv0; userdata is the int that length points to, as a
\* one-element sequence, or <<>> when length is NULL
InitName ==
  /\ api = "miniargv_getprogramname"
  /\ value \in Names
  /\ userdata \in {<<>>, <<-1>>}
  /\ NoCfg
  /\ SingleRun
  /\ argv = NoArgv
  /\ env = NoEnv
  /\ argdef = <<>>
  /\ envdef = <<>>
  /\ badfn = FALSE
  /\ argindex = 0
  /\ pc = "call"
  /\ todo = <<>>
  /\ i = 0
  /\ standalonevaluedefset = FALSE
  /\ standalonevaluedef = 0
  /\ current_envdef = 0
  /\ current_env = 0
  /\ result = 0
  /\ log = <<>>
  /\ steps = <<>>

\* the function is called once
NameApply ==
  /\ pc = "call"
  /\ api = "miniargv_getprogramname"
  /\ LET out == miniargv_getprogramname(value)
     IN  /\ userdata' = (IF userdata = <<>> THEN <<>> ELSE <<out.length>>)
         /\ log' = <<[kind |-> "name", val |-> value, ret |-> out.ret]>>
  /\ pc' = "done"
  /\ UNCHANGED << inputs, cfgvars, value, runvars, todo, argloop, envloop,
                  result, steps >>

NextName == NameApply

SpecName == InitName /\ [][NextName]_vars

\* ------------------------------------------------------------- both modes
\* a caller that processes a command line with miniargv_process and then
\* the same command line with miniargv_process_ltr, every callback and the
\* bad-argument handler returning 0
InitModes ==
  /\ api = "miniargv_process"
  /\ argv \in Argvs
  /\ env = NoEnv
  /\ argdef \in ArgTables
  /\ envdef = EnvTable
  /\ argindex = 0
  /\ badfn \in BOOLEAN
  /\ pc = "call"
  /\ todo = Stages(api, argv, env)
  /\ i = 0
  /\ standalonevaluedefset = FALSE
  /\ standalonevaluedef = 0
  /\ current_envdef = 0
  /\ current_env = 0
  /\ result = 0
  /\ log = <<>>
  /\ steps = <<>>
  /\ NoCfg
  /\ NoPredef
  /\ SingleRun

\* miniargv_process has returned: the caller calls miniargv_process_ltr
OtherMode ==
  /\ pc = "done"
  /\ run = 1
  /\ api = "miniargv_process"
  /\ api' = "miniargv_process_ltr"
  /\ run' = 2
  /\ log1' = log
  /\ result1' = result
  /\ pc' = "call"
  /\ todo' = Stages("miniargv_process_ltr", argv, env)
  /\ result' = 0
  /\ log' = <<>>
  /\ steps' = <<>>
  /\ UNCHANGED << argv, env, argdef, envdef, badfn, argindex, cfgvars, cbvars,
                  policy, argloop, envloop >>

NextModes ==
  \/ BeginStage
  \/ Return
  \/ ArgStep /\ FollowsPolicy(log')
  \/ ArgEnd
  \/ OtherMode

SpecModes == InitModes /\ [][NextModes]_vars

\* ------------------------------------------------------------- find-only
\* C11 as stated: an iteration of the find-only query invokes no callback
\* at all, neither an entry's callback nor the bad-argument handler, and
\* leaves the argument array and the definition table as they were.
C11_FindOnlyCallsNothing ==
  [][pc = "find" => (log' = log /\ argv' = argv /\ argdef' = argdef)]_vars

\* C11: an iteration of the find-only query invokes no entry's callback and
\* leaves the argument array and the definition table as they were; the one
\* call it may make is of the bad-argument handler, when one is supplied,
\* for the token at which resolution failed.
C11_FindOnlyCallsNoEntry ==
  [][pc = "find" =>
       /\ argv' = argv
       /\ argdef' = argdef
       /\ \/ log' = log
          \/ /\ badfn
             /\ Resolved(i).kind = "none"
             /\ \E rb \in CbCodes :
                  log' = Append(log, BadCall("find", argv[Resolved(i).i], i,
                                             Resolved(i).i, rb))]_vars

\* the query had an unresolved token accepted by the bad-argument handler
\* and returned the index of the standalone value after it
C11_Witness ==
  /\ api = "miniargv_get_next_arg_param"
  /\ Done
  /\ result > 0
  /\ \E k \in BadAt : log[k].ret = 0 /\ log[k].at < result
  /\ CbAt = {}

\* ------------------------------------------------------------- environment
EnvAt == {k \in 1..Len(log) : log[k].kind = "env"}

\* the KEY of a KEY=VALUE entry and the VALUE after its first '='
KeyOf(entry) == SubSeq(entry, 1, StrChr(entry, "="))
ValueOf(entry) == SubSeq(entry, StrChr(entry, "=") + 2, Len(entry))

\* an entry whose KEY is the long name of definition d in full
ExactKey(d, e) ==
  /\ envdef[d].longarg # NoStr
  /\ StrChr(env[e], "=") # -1
  /\ KeyOf(env[e]) = envdef[d].longarg

\* C13: miniargv_process_env calls a definition's callback for an entry only
\* when the entry's KEY equals the definition's long name in full, and then
\* with the substring after the first '='; an empty KEY or a KEY that is a
\* proper prefix of the long name triggers no callback.
C13_ExactKeyMatch ==
  \A k \in EnvAt :
    /\ ExactKey(log[k].def, log[k].at)
    /\ log[k].val = ValueOf(env[log[k].at])

\* the scan of miniargv_process_env has gone past the pair (d, e)
EnvPassed(d, e) ==
  current_envdef > d \/ (current_envdef = d /\ current_env > e)

StageRank(stage) ==
  IF stage = "env" THEN 1 ELSE IF stage = "flags" THEN 2 ELSE 3

\* the stage has run to its end on a non-empty command line
RanThrough(stage) ==
  \E n \in 1..Len(steps) :
    steps[n].stage = stage /\ steps[n].out = "next" /\ steps[n].to = Len(argv)

RECURSIVE Consumed(_)
Consumed(p) ==
  /\ p > 1
  /\ Len(argv[p - 1]) = 2
  /\ TakesValue(argv[p - 1])
  /\ ~Consumed(p - 1)

\* the standalone-value tokens that are no flag's value
FreeValues ==
  {p \in 1..Len(argv) :
     ~ShortForm(argv[p]) /\ ~DashDash(argv[p]) /\ ~Consumed(p)}

\* every token that is no flag's value resolves to a definition
AllResolve ==
  \A p \in 1..Len(argv) : ~Consumed(p) => Resolved(p).kind # "none"

\* the indices the successive calls of miniargv_get_next_arg_param returned
FoundSteps ==
  SelectSeq(steps, LAMBDA st : st.stage = "find" /\ st.out = "found")
Found == [n \in 1..Len(FoundSteps) |-> FoundSteps[n].to]

\* the tokens the values-only pass gave to the standalone-value callback
ValueCalls ==
  SelectSeq(log, LAMBDA c : c.kind = "cb" /\ c.stage = "values")
Passed == [n \in 1..Len(ValueCalls) |-> ValueCalls[n].at]

\* C12: with a standalone-value definition in the table and every token
\* resolving, calling miniargv_get_next_arg_param with 0 and then with the
\* index it returned yields strictly increasing indices of standalone-value
\* tokens that are no flag's space-separated value, never -1, and when it
\* has returned 0 every such token has been returned once; these are the
\* tokens, in the same order, that the values-only pass gives to the
\* standalone-value callback.
C12_Enumeration ==
  (HasValueDef /\ AllResolve) =>
    /\ \A m, n \in 1..Len(Found) : m < n => Found[m] < Found[n]
    /\ \A n \in 1..Len(Found) : Found[n] \in FreeValues
    /\ \A n \in 1..Len(steps) : steps[n].out # "abort" \/ steps[n].stage # "find"
    /\ result # -1
    /\ pc = "find" => \A p \in FreeValues : p <= argindex =>
                         \E n \in 1..Len(Found) : Found[n] = p
    /\ todo = <<>> => {Found[n] : n \in 1..Len(Found)} = FreeValues
    /\ (Done /\ todo = <<>> /\ result = 0 /\ \A k \in 1..Len(log) : log[k].ret = 0)
         => Passed = Found

\* two standalone values around a flag with a space-separated value were
\* enumerated, and the values-only pass has gone through the command line
C12_Witness ==
  /\ HasValueDef
  /\ AllResolve
  /\ Done
  /\ todo = <<>>
  /\ result = 0
  /\ Len(Found) = 2
  /\ Passed = Found
  /\ \E p \in 1..Len(argv) :
       Consumed(p) /\ ~ShortForm(argv[p]) /\ ~DashDash(argv[p])

\* ------------------------------------------------------------- config file
\* the named definitions of the table, in table order
NamedCfgDefs ==
  SelectSeq([d \in 1..Len(cfgdef) |-> d], LAMBDA d : cfgdef[d].longarg # NoStr)

\* the default value the template carries for a definition
DefaultOf(d) == IF cfgdef[d].argparam # NoStr THEN cfgdef[d].argparam ELSE <<>>

\* C16: reading back the template generated from a table (long names and
\* help texts free of delimiters, surrounding blanks and line breaks, every
\* callback returning 0) calls, for each named definition in table order,
\* that definition's callback exactly once with its default value, and no
\* other callback; also when one long name is a prefix of another.
C16_TemplateRoundTrip ==
  (/\ api = "miniargv_process_cfgfile"
   /\ cfgfile = CfgFileGenerate(cfgdef)
   /\ Done
   /\ \A k \in 1..Len(log) : log[k].ret = 0)
    => [k \in 1..Len(log) |-> <<log[k].def, log[k].val>>]
         = [n \in 1..Len(NamedCfgDefs) |->
              <<NamedCfgDefs[n], DefaultOf(NamedCfgDefs[n])>>]

\* C17: when a callback returns non-zero no later line is processed and
\* miniargv_process_cfgfile returns non-zero; it returns 0 only when every
\* callback it called returned 0.
C17_CfgErrorsSurface ==
  api = "miniargv_process_cfgfile" =>
    /\ \A k \in 1..Len(log) : log[k].ret # 0 => k = Len(log)
    /\ Done => (result = 0 <=> \A k \in 1..Len(log) : log[k].ret = 0)

\* ------------------------------------------------------------- repeated call
\* C18: a second call of the same entry point with the same arguments, the
\* same table and callbacks whose results depend on their arguments only
\* makes the same callback invocations in the same order (at every moment a
\* prefix of the first call's) and returns the same value.
C18_SameCallSameResult ==
  run = 2 =>
    /\ Len(log) <= Len(log1)
    /\ log = SubSeq(log1, 1, Len(log))
    /\ Done => (log = log1 /\ result = result1)

\* the second call has returned after several invocations, one of them
\* failing, with a non-zero result
C18_Witness ==
  /\ run = 2
  /\ Done
  /\ Len(log) >= 2
  /\ \E k \in 1..Len(log) : log[k].ret # 0
  /\ result # 0

\* ------------------------------------------------------------- predefined callbacks
\* C19: miniargv_cb_increment_long leaves the target exactly one greater,
\* miniargv_cb_decrement_long exactly one smaller, and each returns 0, as
\* the int callbacks do.
C19_LongStepCallbacks ==
  (api \in StepCallbacks /\ Done) =>
    /\ log[1].ret = 0
    /\ api \in {"miniargv_cb_increment_int", "miniargv_cb_increment_long"}
         => log[1].after = log[1].before + 1
    /\ api \in {"miniargv_cb_decrement_int", "miniargv_cb_decrement_long"}
         => log[1].after = log[1].before - 1

\* a decimal number: blanks, an optional sign and one digit or more
WellFormed(s) ==
  \E b \in 0..Len(s) : \E d \in {b, b + 1} :
    /\ d < Len(s)
    /\ \A m \in 0..(b - 1) : IsSpace(At(s, m))
    /\ d = b + 1 => At(s, b) \in {"-", "+"}
    /\ \A m \in d..(Len(s) - 1) : At(s, m) \in DecimalDigits

\* the number a well-formed string denotes
RECURSIVE NumberOf(_)
NumberOf(s) ==
  IF s = <<>> THEN 0
  ELSE IF IsSpace(s[1]) \/ s[1] = "+" THEN NumberOf(Tail(s))
  ELSE IF s[1] = "-" THEN -NumberOf(Tail(s))
  ELSE DigitOf(s[1]) * (10 ^ (Len(s) - 1)) + NumberOf(Tail(s))

INT_MAX == Pow2(IntBits - 1) - 1
INT_MIN == -Pow2(IntBits - 1)

\* C20: miniargv_cb_set_int returns 0 having set the target to exactly the
\* number the value denotes, or returns 1 (value absent or empty), 2 (not a
\* number), 3 (overflow low) or 4 (overflow high) leaving the target as it
\* was; with int narrower than long a number outside the range of int is
\* reported as overflow and never stored truncated.
C20_SetIntExactOrError ==
  (api = "miniargv_cb_set_int" /\ Done) =>
    LET c == log[1]
        same == c.after = c.before
    IN  IF c.val = NoStr \/ c.val = <<>> THEN c.ret = 1 /\ same
        ELSE IF ~WellFormed(c.val) THEN c.ret = 2 /\ same
        ELSE IF NumberOf(c.val) < INT_MIN THEN c.ret = 3 /\ same
        ELSE IF NumberOf(c.val) > INT_MAX THEN c.ret = 4 /\ same
        ELSE c.ret = 0 /\ c.after = NumberOf(c.val)

\* ------------------------------------------------------------- program name
\* the part of a path after its last '/', the whole path without any '/'
RECURSIVE AfterLastSlash(_)
AfterLastSlash(path) ==
  IF StrChr(path, "/") = -1
    THEN path
    ELSE AfterLastSlash(StrFrom(path, StrChr(path, "/") + 1))

\* C21: for a non-empty argv0 miniargv_getprogramname returns the part of
\* argv0 after its last '/', the whole of argv0 when it has no '/', and
\* stores the length of that part through length; for a NULL or empty argv0
\* it returns NULL and stores 0.
C21_ProgramName ==
  (api = "miniargv_getprogramname" /\ Done) =>
    LET name == IF value = NoStr \/ value = <<>>
                  THEN NoStr ELSE AfterLastSlash(value)
    IN  /\ log[1].ret = name
        /\ userdata # <<>> =>
             userdata[1] = (IF name = NoStr THEN 0 ELSE Len(name))

\* ------------------------------------------------------------- both modes
\* the (definition, value) pairs of the entry callbacks of a log
CallsOf(l) ==
  LET c == SelectSeq(l, LAMBDA r : r.kind = "cb")
  IN  [k \in 1..Len(c) |-> <<c[k].def, c[k].val>>]

\* a sequence of calls with those of flags moved, in their order, in front
\* of those of standalone values
FlagsFirst(calls) ==
  SelectSeq(calls, LAMBDA c : IsFlagDef(c[1]))
    \o SelectSeq(calls, LAMBDA c : IsValueDef(c[1]))

\* C22: when every token resolves and every callback returns 0, the calls
\* (definition, value) miniargv_process makes are the calls
\* miniargv_process_ltr makes on the same command line with the flag calls
\* moved, in their order, in front of the standalone-value calls, and both
\* return 0.
C22_ModesAgree ==
  (run = 2 /\ Done /\ AllResolve) =>
    /\ result1 = 0
    /\ result = 0
    /\ CallsOf(log1) = FlagsFirst(CallsOf(log))

\* both modes have returned, and left to right a standalone value was
\* given to its callback before a flag was
C22_Witness ==
  /\ run = 2
  /\ api = "miniargv_process_ltr"
  /\ Done
  /\ AllResolve
  /\ CallsOf(log1) # CallsOf(log)
  /\ CallsOf(log1) = FlagsFirst(CallsOf(log))

\* ------------------------------------------------------------- long flags
\* a long-flag token whose name is an entry's but whose shape is not: no
\* '=' for a value-taking entry, or '=' for an entry without value
LongShapeMismatch(tok) ==
  LET d == LowestLong(tok)
  IN  /\ DashDash(tok)
      /\ d # 0
      /\ IF argdef[d].argparam
           THEN Len(tok) = 2 + Len(argdef[d].longarg)
           ELSE Len(tok) > 2 + Len(argdef[d].longarg)

\* C23: a long flag never consumes the following token. The iteration of a
\* long-flag token leaves the cursor on the token, every call it makes is
\* for that token, and when it goes on the next iteration starts one
\* position later, in every mode; "--name" without '=' for a value-taking
\* entry and "--name=x" for an entry without value call no entry and take
\* the unmatched path.
C23_LongFlagStays ==
  \A q \in 1..Len(steps) :
    LET st == steps[q]
        tok == argv[st.from]
    IN  DashDash(tok) =>
          /\ st.to = st.from
          /\ \A k \in StepCalls(q) \cup StepBadCalls(q) : log[k].at = st.from
          /\ \A k \in StepCalls(q) :
               argdef[log[k].def].argparam =>
                 /\ StrChr(tok, "=") # -1
                 /\ log[k].val = StrFrom(tok, StrChr(tok, "=") + 1)
          /\ \A k \in StepBadCalls(q) : log[k].val = tok
          /\ st.out = "next" =>
               /\ (q < Len(steps) /\ steps[q + 1].stage = st.stage)
                    => steps[q + 1].from = st.from + 1
               /\ (q = Len(steps) /\ pc = st.stage) => i = st.from + 1
          /\ LongShapeMismatch(tok) =>
               MissingValueHandled(q, IF st.stage = "find" THEN -1 ELSE st.from)

\* "--name" of a value-taking entry went to the bad-argument handler, and
\* the token after it was then processed as an argument of its own
C23_Witness ==
  \E q \in 1..(Len(steps) - 1) :
    LET st == steps[q]
        tok == argv[st.from]
        d == LowestLong(tok)
    IN  /\ LongShapeMismatch(tok)
        /\ argdef[d].argparam
        /\ st.out = "next"
        /\ StepBadCalls(q) # {}
        /\ steps[q + 1].stage = st.stage
        /\ steps[q + 1].from = st.from + 1
        /\ \E k \in StepCalls(q + 1) : log[k].val = argv[st.from + 1]

\* ------------------------------------------------------------- cursor
\* the iterations of one pass, in order
StepsOf(stage) == SelectSeq(steps, LAMBDA st : st.stage = stage)

\* C24: in every mode the cursor of a pass starts at 1 (at argindex + 1 in
\* find-only mode), each iteration leaves it where it was or one further,
\* the latter only on a token that exists, the next iteration starts one
\* after that, so the cursor only increases, by 1 or 2 per argument, and
\* never goes past the terminating NULL; an iteration that aborts or finds
\* is the last of its pass, and a pass makes at most argc - 1 iterations.
C24_Cursor ==
  argv # NoArgv =>
    /\ \A stage \in ArgStages :
         LET ss == StepsOf(stage)
         IN  /\ Len(ss) <= Len(argv)
             /\ Len(ss) > 0 =>
                  ss[1].from = (IF stage = "find" THEN argindex + 1 ELSE 1)
             /\ \A q \in 1..Len(ss) :
                  /\ ss[q].from >= 1
                  /\ ss[q].to \in {ss[q].from, ss[q].from + 1}
                  /\ ss[q].to <= Len(argv)
                  /\ q < Len(ss) =>
                       /\ ss[q].out = "next"
                       /\ ss[q + 1].from = ss[q].to + 1
             /\ pc = stage =>
                  /\ i >= 1
                  /\ i <= Len(argv) + 1
                  /\ i = (IF Len(ss) > 0 THEN ss[Len(ss)].to + 1
                          ELSE IF stage = "find" THEN argindex + 1 ELSE 1)

\* a pass has gone through a command line of four tokens in three
\* iterations, one of them over a flag and its space-separated value
C24_Witness ==
  /\ Done
  /\ result = 0
  /\ Len(argv) = 4
  /\ \E stage \in ArgStages :
       LET ss == StepsOf(stage)
       IN  /\ Len(ss) = 3
           /\ \E q \in 1..3 : ss[q].to = ss[q].from + 1
           /\ ss[3].to = 4

\* ------------------------------------------------------------- handler calls
\* tokens that are no flag's value and resolve to no definition
Unresolved ==
  {p \in 1..Len(argv) : ~Consumed(p) /\ Resolved(p).kind = "none"}

\* the handler calls of a pass that were given token p
BadCallsFor(stage, p) ==
  {k \in BadAt : log[k].stage = stage /\ log[k].at = p /\ log[k].val = argv[p]}

\* the call has returned, a handler was supplied and returned 0 every time,
\* and no environment callback failed
HandlerAccepts ==
  /\ Done
  /\ argv # NoArgv
  /\ badfn
  /\ \A k \in BadAt : log[k].ret = 0
  /\ \A k \in EnvAt : log[k].ret = 0

\* C25: with a bad-argument handler that always returns 0, miniargv_process
\* gives every token that resolves to no definition to the handler exactly
\* twice, once in the flags pass and once in the values pass, the calls of
\* the flags pass all before those of the values pass; miniargv_process_ltr
\* and miniargv_process_arg give it exactly once.
C25_HandlerCalls ==
  HandlerAccepts =>
    /\ api = "miniargv_process" =>
         /\ \A p \in Unresolved :
              /\ Cardinality(BadCallsFor("flags", p)) = 1
              /\ Cardinality(BadCallsFor("values", p)) = 1
              /\ Cardinality({k \in BadAt : log[k].at = p}) = 2
         /\ \A k, l \in BadAt :
              (log[k].stage = "flags" /\ log[l].stage = "values") => k < l
    /\ api \in {"miniargv_process_ltr", "miniargv_process_arg"} =>
         \A p \in Unresolved :
           /\ Cardinality(BadCallsFor("both", p)) = 1
           /\ Cardinality({k \in BadAt : log[k].at = p}) = 1

\* miniargv_process has returned 0 after the handler was given two
\* different unresolved tokens, each of them in both passes
C25_Witness ==
  /\ HandlerAccepts
  /\ api = "miniargv_process"
  /\ result = 0
  /\ Cardinality(Unresolved) >= 2
  /\ Cardinality(BadAt) = 2 * Cardinality(Unresolved)

\* ------------------------------------------------------------- failed callback
\* iteration q is over a value-taking short flag in space-separated form
SpaceForm(q) ==
  LET tok == argv[steps[q].from]
  IN  TakesValue(tok) /\ Len(tok) = 2 /\ steps[q].from < Len(argv)

\* what follows a failed callback in iteration q when p is the index of the
\* token reported: the handler, if supplied, is given argv[p] and nothing
\* else, and without a handler or when it fails the pass returns p
ReportedAt(q, p) ==
  /\ badfn =>
       /\ \E k \in StepBadCalls(q) : log[k].at = p /\ log[k].val = argv[p]
       /\ Cardinality(StepBadCalls(q)) = 1
  /\ ~badfn => StepBadCalls(q) = {}
  /\ (~badfn \/ \E k \in StepBadCalls(q) : log[k].ret # 0) =>
       /\ q = Len(steps)
       /\ steps[q].out = "abort"
       /\ pc \in {"call", "done"}
       /\ result = p

====
